---- MODULE Spec2Model ----
(***************************************************************************)
(* Model of angsolver.py: letter-multiset subtraction, the anagram search  *)
(* over a word list, and the two sentence composers (greedy partial mode   *)
(* and backtracking full-match mode).                                      *)
(*                                                                         *)
(* Strings are sequences of one-character strings.  A Counter is a         *)
(* function whose DOMAIN is the set of keys it holds; reading a missing    *)
(* key gives 0 (Counter.__missing__) and never inserts the key.            *)
(***************************************************************************)
EXTENDS Integers, Sequences, FiniteSets, TLC

VARIABLES letters, word_list, min_length, exclude_words,
          pc, letters_count, ex_i, anagrams,
          full_match, stack, sentence_words, sentence

vars == <<letters, word_list, min_length, exclude_words,
          pc, letters_count, ex_i, anagrams,
          full_match, stack, sentence_words, sentence>>

inputs == <<letters, word_list, min_length, exclude_words>>

(***************************************************************************)
(* Bounds of the model.                                                    *)
(***************************************************************************)
\* longest raw letter string typed with mixed case and spaces
MaxLetters == 3
\* longest word of the dictionary and of the exclusion vocabulary
MaxWordLen == 2
\* most exclusion words on the command line
MaxExclude == 2
\* most words of the word list when exclusions are given
MaxWords == 2
\* largest --min-length
MaxMinLength == 2
\* longest letter string and largest word list of the runs without exclusions
MaxPool == 4
MaxCandidates == 4

(***************************************************************************)
(* Characters and strings.                                                 *)
(***************************************************************************)
LetterChars == {"a", "B", " "}
ExcludeChars == {"a", "B"}
WordChars == {"a", "b"}

\* ord(c) for the characters that occur in words
CodePoint(c) ==
  CASE c = " " -> 32
    [] c = "." -> 46
    [] c = "A" -> 65
    [] c = "B" -> 66
    [] c = "a" -> 97
    [] c = "b" -> 98

\* str.lower() on one character
LowerChar(c) ==
  CASE c = "A" -> "a"
    [] c = "B" -> "b"
    [] OTHER -> c

\* str.upper() on one character
UpperChar(c) ==
  CASE c = "a" -> "A"
    [] c = "b" -> "B"
    [] OTHER -> c

lower(s) == [i \in 1..Len(s) |-> LowerChar(s[i])]

\* s.replace(" ", "")
RemoveSpaces(s) == SelectSeq(s, LAMBDA c : c # " ")

Range(s) == {s[i] : i \in DOMAIN s}

SeqsUpTo(S, n) == UNION {[1..k -> S] : k \in 0..n}

\* Python's < on str: code point by code point, a proper prefix is smaller
StrLess(x, y) ==
  \/ /\ Len(x) < Len(y)
     /\ \A i \in 1..Len(x) : x[i] = y[i]
  \/ \E k \in 1..Len(x) :
       /\ k <= Len(y)
       /\ \A i \in 1..(k - 1) : x[i] = y[i]
       /\ CodePoint(x[k]) < CodePoint(y[k])

(***************************************************************************)
(* collections.Counter                                                     *)
(***************************************************************************)
EmptyCounter == [c \in {} |-> 0]

Counter(s) == [c \in Range(s) |-> Cardinality({i \in DOMAIN s : s[i] = c})]

\* the keys of Counter(s) in insertion order (first occurrence)
RECURSIVE KeysOf(_)
KeysOf(s) ==
  IF s = <<>> THEN <<>>
  ELSE LET front == KeysOf(SubSeq(s, 1, Len(s) - 1))
           last == s[Len(s)]
       IN IF last \in Range(front) THEN front ELSE Append(front, last)

\* counter[c] and counter.get(c, 0)
Get(counter, c) == IF c \in DOMAIN counter THEN counter[c] ELSE 0

\* del counter[c]
Del(counter, c) == [k \in (DOMAIN counter) \ {c} |-> counter[k]]

\* sum(counter.values())
RECURSIVE SumValues(_)
SumValues(counter) ==
  IF DOMAIN counter = {} THEN 0
  ELSE LET c == CHOOSE k \in DOMAIN counter : TRUE
       IN counter[c] + SumValues(Del(counter, c))

\* counter.update(other): add the counts of other
Update(counter, other) ==
  [c \in (DOMAIN counter) \cup (DOMAIN other) |-> Get(counter, c) + Get(other, c)]

(***************************************************************************)
(* subtract_letters                                                        *)
(***************************************************************************)
\* a variant of EntrySpent that deletes only entries below zero
EntrySpent_NegativeOnly(count) == count < 0

\* the comparison that decides whether an entry is deleted (line 31)
EntrySpent(count) == count <= 0

\* a variant of Decrement that takes one copy whatever the word needs
Decrement_One(word_count, char) == 1

\* the amount taken from remaining[char] (line 30)
Decrement(word_count, char) == word_count[char]

\* the loop over the keys of word_count, from key number k on
RECURSIVE SubtractLoop(_, _, _, _)
SubtractLoop(remaining, word_count, keys, k) ==
  IF k > Len(keys) THEN [raised |-> FALSE, value |-> remaining]
  ELSE LET char == keys[k] IN
    IF char \in DOMAIN remaining
    THEN LET r1 == [remaining EXCEPT ![char] = @ - Decrement(word_count, char)]
             r2 == IF EntrySpent(r1[char]) THEN Del(r1, char) ELSE r1
         IN IF Get(r2, char) < 0
            THEN [raised |-> TRUE, char |-> char]
            ELSE SubtractLoop(r2, word_count, keys, k + 1)
    ELSE SubtractLoop(remaining, word_count, keys, k + 1)

subtract_letters(letter_count, word) ==
  LET word_count == Counter(lower(word))
  IN SubtractLoop(letter_count, word_count, KeysOf(lower(word)), 1)

(***************************************************************************)
(* is_valid_anagram                                                        *)
(***************************************************************************)
\* a variant of is_valid_anagram that wants a spare copy of every letter
is_valid_anagram_strict(letters_cnt, word) ==
  LET word_count == Counter(word)
  IN \A char \in DOMAIN word_count : word_count[char] < Get(letters_cnt, char)

is_valid_anagram(letters_cnt, word) ==
  LET word_count == Counter(word)
  IN \A char \in DOMAIN word_count : word_count[char] <= Get(letters_cnt, char)

(***************************************************************************)
(* sorted(): a stable sort.  before[<<x, y>>] says key(x) < key(y); an     *)
(* element lands after every element with a smaller key and after the      *)
(* earlier elements with an equal key.                                     *)
(***************************************************************************)
StableSort(seq, before) ==
  LET n == Len(seq)
      rank(i) == 1 + Cardinality({j \in 1..n :
                        \/ before[<<seq[j], seq[i]>>]
                        \/ /\ ~before[<<seq[i], seq[j]>>]
                           /\ j < i})
  IN [p \in 1..n |-> seq[CHOOSE i \in 1..n : rank(i) = p]]

\* a variant of AnagramKeyLess that compares lengths only
AnagramKeyLess_LengthOnly(x, y) == -Len(x) < -Len(y)

\* key=lambda x: (-len(x), x)
AnagramKeyLess(x, y) ==
  \/ -Len(x) < -Len(y)
  \/ /\ Len(x) = Len(y)
     /\ StrLess(x, y)

\* sorted(anagrams, key=lambda x: (-len(x), x))
SortedAnagrams(seq) ==
  StableSort(seq, [p \in Range(seq) \X Range(seq) |-> AnagramKeyLess(p[1], p[2])])

\* key=len, reverse=True
LenKeyLess(x, y) == Len(x) > Len(y)

\* sorted(anagrams, key=len, reverse=True)
SortedByLength(seq) ==
  StableSort(seq, [p \in Range(seq) \X Range(seq) |-> LenKeyLess(p[1], p[2])])

(***************************************************************************)
(* find_anagrams, lines 56-63: the scan of the word list in the order the  *)
(* set iterates (word_seq), then the sort.                                 *)
(***************************************************************************)
Accepts(letters_cnt, min_len, word) ==
  /\ Len(word) <= SumValues(letters_cnt)
  /\ Len(word) >= min_len
  /\ is_valid_anagram(letters_cnt, word)

MatchWords(word_seq, letters_cnt, min_len) ==
  SortedAnagrams(SelectSeq(word_seq, LAMBDA w : Accepts(letters_cnt, min_len, w)))

\* the orders in which a set of words may be iterated
Orders(S) ==
  {s \in [1..Cardinality(S) -> S] : \A i, j \in DOMAIN s : i # j => s[i] # s[j]}

(***************************************************************************)
(* generate_sentence                                                       *)
(***************************************************************************)
\* "No sentence possible."
NoSentenceText ==
  <<"N", "o", " ", "s", "e", "n", "t", "e", "n", "c", "e", " ", "p", "o", "s", "s", "i", "b", "l", "e", ".">>

\* "No full-match sentence possible."
NoFullMatchText ==
  <<"N", "o", " ", "f", "u", "l", "l", "-", "m", "a", "t", "c", "h", " ", "s", "e", "n", "t", "e", "n", "c", "e", " ", "p", "o", "s", "s", "i", "b", "l", "e", ".">>

\* the value of a variable that has not been assigned
None == <<>>

\* the word limit of partial mode (line 104)
SentenceLimit == 3

\* str.capitalize(): first character upper-cased, the rest lower-cased
capitalize(w) ==
  IF w = <<>> THEN <<>> ELSE <<UpperChar(w[1])>> \o lower(Tail(w))

\* ' '.join(words)
RECURSIVE Join(_)
Join(words) ==
  IF words = <<>> THEN <<>>
  ELSE IF Len(words) = 1 THEN words[1]
  ELSE words[1] \o <<" ">> \o Join(Tail(words))

\* lines 107-116
ConstructSentence(words) ==
  IF words = <<>> THEN NoSentenceText
  ELSE IF Len(words) = 1 THEN capitalize(words[1]) \o <<".">>
  ELSE IF Len(words) = 2 THEN capitalize(words[1]) \o <<" ">> \o words[2] \o <<".">>
  ELSE capitalize(words[1]) \o <<" ">> \o Join(Tail(words)) \o <<".">>

\* line 100: the word fits on top of the letters already used
FitsUsed(used_letters, remaining_letters, word) ==
  LET word_count == Counter(word)
  IN \A char \in DOMAIN word_count :
       Get(used_letters, char) + word_count[char] <= Get(remaining_letters, char)

\* a variant of LimitReached that stops one word late
LimitReached_OffByOne(words) == Len(words) > SentenceLimit

\* line 104: the test that ends the scan
LimitReached(words) == Len(words) >= SentenceLimit

\* lines 98-105: the greedy scan from word number k on
RECURSIVE PartialLoop(_, _, _, _, _)
PartialLoop(available_words, k, used_letters, words, remaining_letters) ==
  IF k > Len(available_words) THEN words
  ELSE LET word == available_words[k]
           fits == FitsUsed(used_letters, remaining_letters, word)
           words2 == IF fits THEN Append(words, word) ELSE words
           used2 == IF fits THEN Update(used_letters, Counter(word)) ELSE used_letters
       IN IF LimitReached(words2) THEN words2
          ELSE PartialLoop(available_words, k + 1, used2, words2, remaining_letters)

\* generate_sentence(anagrams, remaining_letters, full_match=False):
\* the chosen words and the text returned
generate_sentence_partial(found, remaining_letters) ==
  IF found = <<>>
  THEN [words |-> <<>>, text |-> NoSentenceText]
  ELSE LET available_words == SortedByLength(found)
           words == PartialLoop(available_words, 1, EmptyCounter, <<>>, remaining_letters)
       IN [words |-> words, text |-> ConstructSentence(words)]

\* a variant of FullMatchFound that does not look at the residual letters
FullMatchFound_AnyWords(current_words, remaining) == current_words # <<>>

\* line 78: the test that ends the full-match search with success
FullMatchFound(current_words, remaining) ==
  /\ DOMAIN remaining = {}
  /\ current_words # <<>>

\* line 84: the word can be taken from the residual letters
FitsResidual(remaining, word) ==
  LET word_count == Counter(word)
  IN \A c \in DOMAIN word_count : word_count[c] <= Get(remaining, c)

\* a variant of RestWords that also drops the word after the chosen one
RestWords_SkipOne(words, k) == SubSeq(words, k + 2, Len(words))

\* line 86: words[i+1:], with k the position of words[i] counted from 1
RestWords(words, k) == SubSeq(words, k + 1, Len(words))

\* a variant of FullMatchFailureText that reuses the text of line 68
FullMatchFailureText_Generic == NoSentenceText

\* the text returned when the search finds nothing (line 95)
FullMatchFailureText == NoFullMatchText

\* one activation of find_full_match: its arguments and the loop position
Frame(words, current_words, remaining, i) ==
  [words |-> words, current_words |-> current_words, remaining |-> remaining, i |-> i]

(***************************************************************************)
(* The inputs of a run.                                                    *)
(***************************************************************************)
ExcludeVocabulary == SeqsUpTo(ExcludeChars, MaxWordLen) \ {<<>>}

Dictionary == SeqsUpTo(WordChars, MaxWordLen)

MinLengths == 0..MaxMinLength

IsSortedStr(s) == \A i, j \in DOMAIN s : i < j => CodePoint(s[i]) <= CodePoint(s[j])

WordSets(n) == {S \in SUBSET Dictionary : Cardinality(S) <= n}

\* runs with exclusion words: letters typed with capitals and spaces
InitExcluding ==
  /\ letters \in SeqsUpTo(LetterChars, MaxLetters) \ {<<>>}
  /\ exclude_words \in SeqsUpTo(ExcludeVocabulary, MaxExclude)
  /\ word_list \in WordSets(MaxWords)

\* runs without exclusion words: a larger pool and a larger word list
InitComposing ==
  /\ letters \in {s \in SeqsUpTo(WordChars, MaxPool) \ {<<>>} : IsSortedStr(s)}
  /\ exclude_words = <<>>
  /\ word_list \in WordSets(MaxCandidates)

Init ==
  /\ InitExcluding \/ InitComposing
  /\ min_length \in MinLengths
  /\ pc = "find_anagrams"
  /\ letters_count = EmptyCounter
  /\ ex_i = 1
  /\ anagrams = None
  /\ full_match = FALSE
  /\ stack = <<>>
  /\ sentence_words = <<>>
  /\ sentence = None

(***************************************************************************)
(* find_anagrams                                                           *)
(***************************************************************************)
\* lines 44-45
CountLetters ==
  /\ pc = "find_anagrams"
  /\ letters_count' = Counter(lower(RemoveSpaces(letters)))
  /\ ex_i' = 1
  /\ pc' = "exclude"
  /\ UNCHANGED <<inputs, anagrams, full_match, stack, sentence_words, sentence>>

\* lines 49-54: one pass of the loop over exclude_words
ExcludeWord ==
  /\ pc = "exclude"
  /\ ex_i <= Len(exclude_words)
  /\ LET r == subtract_letters(letters_count, exclude_words[ex_i])
     IN IF r.raised
        THEN /\ anagrams' = <<>>
             /\ pc' = "returned"
             /\ UNCHANGED <<letters_count, ex_i>>
        ELSE /\ letters_count' = r.value
             /\ ex_i' = ex_i + 1
             /\ UNCHANGED <<anagrams, pc>>
  /\ UNCHANGED <<inputs, full_match, stack, sentence_words, sentence>>

\* lines 56-63, after the last exclusion word
FindMatches ==
  /\ pc = "exclude"
  /\ ex_i > Len(exclude_words)
  /\ \E word_seq \in Orders(word_list) :
       anagrams' = MatchWords(word_seq, letters_count, min_length)
  /\ pc' = "returned"
  /\ UNCHANGED <<inputs, letters_count, ex_i, full_match, stack, sentence_words, sentence>>

(***************************************************************************)
(* main, lines 192-195: generate_sentence in either mode                   *)
(***************************************************************************)
\* --sentence without --full-sentence
GeneratePartial ==
  /\ pc = "returned"
  /\ LET r == generate_sentence_partial(anagrams, letters_count)
     IN /\ sentence_words' = r.words
        /\ sentence' = r.text
  /\ full_match' = FALSE
  /\ pc' = "done"
  /\ UNCHANGED <<inputs, letters_count, ex_i, anagrams, stack>>

\* --full-sentence: lines 67-76 and the first call of find_full_match (line 91)
GenerateFull ==
  /\ pc = "returned"
  /\ full_match' = TRUE
  /\ IF anagrams = <<>>
     THEN /\ sentence' = NoSentenceText
          /\ pc' = "done"
          /\ UNCHANGED stack
     ELSE /\ stack' = <<Frame(SortedByLength(anagrams), <<>>, letters_count, 1)>>
          /\ pc' = "search"
          /\ UNCHANGED sentence
  /\ UNCHANGED <<inputs, letters_count, ex_i, anagrams, sentence_words>>

\* lines 78-79, 87-88 and 91-93: a match ends every pending activation
FullMatchReturn ==
  /\ pc = "search"
  /\ LET top == stack[Len(stack)] IN
       /\ FullMatchFound(top.current_words, top.remaining)
       /\ sentence_words' = top.current_words
       /\ sentence' = ConstructSentence(top.current_words)
  /\ stack' = <<>>
  /\ pc' = "done"
  /\ UNCHANGED <<inputs, letters_count, ex_i, anagrams, full_match>>

\* lines 82-86: the loop takes the next word and recurses when it fits
FullMatchTry ==
  /\ pc = "search"
  /\ LET n == Len(stack)
         top == stack[n]
     IN /\ ~FullMatchFound(top.current_words, top.remaining)
        /\ top.i <= Len(top.words)
        /\ LET word == top.words[top.i]
               advanced == [stack EXCEPT ![n].i = @ + 1]
           IN IF FitsResidual(top.remaining, word)
              THEN LET r == subtract_letters(top.remaining, word)
                   IN IF r.raised
                      THEN /\ stack' = <<>>
                           /\ pc' = "crashed"
                      ELSE /\ stack' = Append(advanced,
                                         Frame(RestWords(top.words, top.i),
                                               Append(top.current_words, word),
                                               r.value, 1))
                           /\ pc' = "search"
              ELSE /\ stack' = advanced
                   /\ pc' = "search"
  /\ UNCHANGED <<inputs, letters_count, ex_i, anagrams, full_match,
                 sentence_words, sentence>>

\* lines 80-81 and 89: nothing left to try, the activation returns None;
\* lines 94-95 when it was the first one
FullMatchGiveUp ==
  /\ pc = "search"
  /\ LET n == Len(stack)
         top == stack[n]
     IN /\ ~FullMatchFound(top.current_words, top.remaining)
        /\ top.i > Len(top.words)
        /\ stack' = SubSeq(stack, 1, n - 1)
        /\ IF n = 1
           THEN /\ sentence' = FullMatchFailureText
                /\ pc' = "done"
           ELSE UNCHANGED <<sentence, pc>>
  /\ UNCHANGED <<inputs, letters_count, ex_i, anagrams, full_match, sentence_words>>

Next ==
  \/ CountLetters
  \/ ExcludeWord
  \/ FindMatches
  \/ GeneratePartial
  \/ GenerateFull
  \/ FullMatchReturn
  \/ FullMatchTry
  \/ FullMatchGiveUp

Spec == Init /\ [][Next]_vars

(***************************************************************************)
(* Vocabulary of the properties: letter multisets counted straight from    *)
(* the inputs, independently of the Counter arithmetic above.              *)
(***************************************************************************)
FoldedChars == {LowerChar(c) : c \in LetterChars \cup ExcludeChars \cup WordChars}

\* occurrences of the letter c in the case-folded word w
LetterCount(w, c) == Cardinality({i \in DOMAIN w : LowerChar(w[i]) = c})

\* occurrences of c in the letter pool typed by the user (spaces dropped)
PoolCount(c) == IF c = " " THEN 0 ELSE LetterCount(letters, c)

\* occurrences of c in the first n exclusion words together
ExcludedCount(n, c) ==
  Cardinality({q \in (1..n) \X (1..MaxWordLen) :
                 /\ q[2] <= Len(exclude_words[q[1]])
                 /\ LowerChar(exclude_words[q[1]][q[2]]) = c})

\* occurrences of c in the words of the sequence ws together
WordsCount(ws, c) ==
  Cardinality({q \in (DOMAIN ws) \X (1..MaxWordLen) :
                 /\ q[2] <= Len(ws[q[1]])
                 /\ LowerChar(ws[q[1]][q[2]]) = c})

\* the multiset with count(c) copies of each letter, absent when count(c) <= 0
AsMultiset(count(_)) == [c \in {d \in FoldedChars : count(d) > 0} |-> count(c)]

TotalCount(M) == Cardinality({q \in (DOMAIN M) \X (1..(MaxLetters + MaxPool)) : q[2] <= M[q[1]]})

\* covers(M, w): w's letters can all be taken from M
Covers(M, w) == \A c \in FoldedChars : LetterCount(w, c) <= Get(M, c)

\* the pool less the letters of the first n exclusion words
PoolAfter(n) ==
  LET left(c) == PoolCount(c) - ExcludedCount(n, c) IN AsMultiset(left)

\* the first n exclusion words can be taken from the pool one after the other
ExclusionsFit(n) == \A c \in FoldedChars : ExcludedCount(n, c) <= PoolCount(c)

NoExclusionFails == ExclusionsFit(Len(exclude_words))

\* the first exclusion word that cannot be taken
FirstFailure ==
  CHOOSE k \in 1..Len(exclude_words) : ~ExclusionsFit(k) /\ ExclusionsFit(k - 1)

Returned == pc \in {"returned", "search", "done"}

NoDuplicates(s) == \A i, j \in DOMAIN s : i # j => s[i] # s[j]

Sentinels == {NoSentenceText, NoFullMatchText}

\* some non-empty set of matched words uses up the remaining letters exactly
ExactCoverExists ==
  \E S \in (SUBSET Range(anagrams)) \ {{}} :
    \A c \in FoldedChars :
      Cardinality({q \in S \X (1..MaxWordLen) :
                     q[2] <= Len(q[1]) /\ LowerChar(q[1][q[2]]) = c})
        = Get(letters_count, c)

(***************************************************************************)
(* Properties.                                                             *)
(***************************************************************************)

\* C1: when no exclusion fails, find_anagrams returns exactly the words W of
\* the word set with len(W) <= totalCount(M), len(W) >= L and covers(M, W),
\* M being the pool less the exclusions; each word is returned once.
C1_MatchesExactly ==
  (Returned /\ NoExclusionFails) =>
    LET M == PoolAfter(Len(exclude_words)) IN
      /\ letters_count = M
      /\ \A W \in Dictionary :
           (W \in Range(anagrams)) <=>
             /\ W \in word_list
             /\ Len(W) <= TotalCount(M)
             /\ Len(W) >= min_length
             /\ Covers(M, W)
      /\ Range(anagrams) \subseteq word_list
      /\ NoDuplicates(anagrams)

\* C1 witness: exclusions were applied, a word was accepted and a word was rejected
C1_Witness ==
  /\ pc = "returned"
  /\ Len(exclude_words) >= 1
  /\ NoExclusionFails
  /\ anagrams # <<>>
  /\ word_list \ Range(anagrams) # {}

\* C2: when an exclusion word cannot be taken from the running multiset,
\* find_anagrams returns an empty anagram list and the multiset as it was
\* before the failing subtraction.
C2_FailedExclusionReturnsEmpty ==
  (Returned /\ ~NoExclusionFails) =>
    /\ anagrams = <<>>
    /\ letters_count = PoolAfter(FirstFailure - 1)

\* C3: subtract_letters raises whenever the word needs a letter that the
\* multiset lacks or more copies of a letter than the multiset holds.
C3_SubtractRaises ==
  (pc = "exclude" /\ ex_i <= Len(exclude_words)) =>
    (~Covers(letters_count, exclude_words[ex_i]) =>
       subtract_letters(letters_count, exclude_words[ex_i]).raised)

\* C4: the returned list is ordered by length descending, then
\* lexicographically ascending, and is the same for every iteration order of
\* the word set.
C4_OrderedAndOrderIndependent ==
  (Returned /\ ex_i > Len(exclude_words)) =>
    /\ \A i, j \in DOMAIN anagrams :
         i < j => \/ Len(anagrams[i]) > Len(anagrams[j])
                  \/ /\ Len(anagrams[i]) = Len(anagrams[j])
                     /\ StrLess(anagrams[i], anagrams[j])
    /\ \A word_seq \in Orders(word_list) :
         MatchWords(word_seq, letters_count, min_length) = anagrams

\* C4 witness: two matched words of equal length and one of another length
C4_Witness ==
  /\ pc = "returned"
  /\ \E i, j, k \in DOMAIN anagrams :
       /\ i # j
       /\ Len(anagrams[i]) = Len(anagrams[j])
       /\ Len(anagrams[k]) # Len(anagrams[i])

\* C5: a sentence returned in full-match mode is made of at least one word,
\* its words are distinct entries of the matched list, and their letters
\* counted with multiplicity equal the remaining multiset.
C5_FullMatchExact ==
  (pc = "done" /\ full_match /\ sentence \notin Sentinels) =>
    /\ sentence_words # <<>>
    /\ NoDuplicates(sentence_words)
    /\ Range(sentence_words) \subseteq Range(anagrams)
    /\ DOMAIN letters_count \subseteq FoldedChars
    /\ \A c \in FoldedChars : WordsCount(sentence_words, c) = Get(letters_count, c)
    /\ sentence = ConstructSentence(sentence_words)

\* C5 witness: a full-match sentence of several words
C5_Witness ==
  /\ pc = "done"
  /\ full_match
  /\ sentence \notin Sentinels
  /\ Len(sentence_words) >= 2

\* C6: when full-match mode returns a "not possible" text, no non-empty set
\* of matched words has letters equal to the remaining multiset.
C6_SearchComplete ==
  (pc = "done" /\ full_match /\ sentence \in Sentinels) => ~ExactCoverExists

\* C6 witness: the search gave up although several words were matched
C6_Witness ==
  /\ pc = "done"
  /\ full_match
  /\ sentence \in Sentinels
  /\ Len(anagrams) >= 3

\* C7 as claimed: in full-match mode, for every matched list, empty or not,
\* the result is "No full-match sentence possible." when no selection of
\* matched words exhausts the remaining multiset.
C7_AlwaysFullMatchText ==
  (pc = "done" /\ full_match /\ ~ExactCoverExists) => sentence = NoFullMatchText

\* C7 amended: in full-match mode, when no selection of matched words
\* exhausts the remaining multiset, the result is "No full-match sentence
\* possible." for a non-empty matched list and "No sentence possible." for
\* an empty one.
C7_FailureTextByList ==
  (pc = "done" /\ full_match /\ ~ExactCoverExists) =>
    sentence = IF anagrams = <<>> THEN NoSentenceText ELSE NoFullMatchText

\* C7 witness: a failed search over a non-empty matched list
C7_Witness ==
  /\ pc = "done"
  /\ full_match
  /\ anagrams # <<>>
  /\ ~ExactCoverExists
  /\ sentence = NoFullMatchText

\* the matched words in the order partial mode scans them: longest first,
\* words of equal length in the order they have in the matched list
ScanOrder ==
  CHOOSE s \in Orders(Range(anagrams)) :
    /\ \A i, j \in DOMAIN s : i < j => Len(s[i]) >= Len(s[j])
    /\ \A i, j \in DOMAIN anagrams :
         (i < j /\ Len(anagrams[i]) = Len(anagrams[j])) =>
           \E p, q \in DOMAIN s : p < q /\ s[p] = anagrams[i] /\ s[q] = anagrams[j]

\* copies of c in the words of s at the positions of I below k
UsedBefore(s, I, k, c) ==
  Cardinality({q \in I \X (1..MaxWordLen) :
                 /\ q[1] < k
                 /\ q[2] <= Len(s[q[1]])
                 /\ s[q[1]][q[2]] = c})

\* I is the set of positions the greedy scan accepts: a word is taken exactly
\* when fewer than three were taken before it and it fits on the used letters
GreedyAccepts(s, I) ==
  \A k \in DOMAIN s :
    (k \in I) <=>
      /\ Cardinality({j \in I : j < k}) < 3
      /\ \A c \in Range(s[k]) :
           UsedBefore(s, I, k, c) + LetterCount(s[k], c) <= Get(letters_count, c)

\* the words of s at the positions of I, in order
Pick(s, I) ==
  [p \in 1..Cardinality(I) |-> s[CHOOSE k \in I : Cardinality({j \in I : j <= k}) = p]]

\* C8: partial mode scans the matched words longest first (ties in their
\* original order), takes a word exactly when used[c] + word[c] <=
\* remaining[c] for each of its characters, stops after the third word taken;
\* so the sentence has at most 3 words, never uses more letters than remain,
\* and "No sentence possible." is returned exactly when no word is taken.
C8_PartialGreedy ==
  (pc = "done" /\ ~full_match) =>
    /\ NoDuplicates(anagrams)
    /\ \E I \in SUBSET (DOMAIN anagrams) :
         /\ GreedyAccepts(ScanOrder, I)
         /\ sentence_words = Pick(ScanOrder, I)
    /\ Len(sentence_words) <= 3
    /\ \A c \in FoldedChars : WordsCount(sentence_words, c) <= Get(letters_count, c)
    /\ (sentence = NoSentenceText) <=> (sentence_words = <<>>)
    /\ sentence_words # <<>> => sentence = ConstructSentence(sentence_words)

\* C8 witness: three words were taken and a fourth matched word that would
\* still fit was left out
C8_Witness ==
  /\ pc = "done"
  /\ ~full_match
  /\ Len(sentence_words) = 3
  /\ \E w \in Range(anagrams) \ Range(sentence_words) :
       \A c \in FoldedChars :
         WordsCount(sentence_words, c) + LetterCount(w, c) <= Get(letters_count, c)

\* the multiset after is the multiset before less the letters of w
ExactDifference(after, before, w) ==
  /\ \A c \in FoldedChars : Get(after, c) = Get(before, c) - LetterCount(w, c)
  /\ DOMAIN after \subseteq FoldedChars
  /\ TotalCount(after) = TotalCount(before) - Len(w)

\* C9: when covers(M, W), subtract_letters(M, W) returns M less the letters
\* of W, so the total count drops by len(W); M itself is left as it was.
\* Stated of every subtraction the program makes: an exclusion word in
\* find_anagrams, a chosen word in the full-match search (whose caller keeps
\* its own residual multiset).
C9_SubtractExact ==
  [][/\ (/\ pc = "exclude"
         /\ ex_i <= Len(exclude_words)
         /\ Covers(letters_count, exclude_words[ex_i]))
        => /\ pc' = "exclude"
           /\ ex_i' = ex_i + 1
           /\ ExactDifference(letters_count', letters_count, exclude_words[ex_i])
     /\ (pc = "search" /\ Len(stack') > Len(stack))
        => LET n == Len(stack)
               word == stack[n].words[stack[n].i]
           IN /\ Covers(stack[n].remaining, word)
              /\ ExactDifference(stack'[n + 1].remaining, stack[n].remaining, word)
              /\ stack'[n].remaining = stack[n].remaining
    ]_vars

\* C9 witness: exclusion words that need two copies of a letter were taken
\* from the pool and a word was then taken inside the full-match search
C9_Witness ==
  /\ pc = "search"
  /\ Len(stack) >= 2
  /\ Len(exclude_words) >= 1
  /\ NoExclusionFails
  /\ \E c \in FoldedChars : ExcludedCount(Len(exclude_words), c) >= 2

\* no entry of M is zero or negative and no letter exceeds its count in the pool
WithinPool(M) == \A c \in DOMAIN M : M[c] >= 1 /\ M[c] <= PoolCount(c)

\* C10: after any number of exclusion words, and after every subtraction of
\* the full-match search, the running multiset has no entry of zero or less
\* and no letter counted more often than in the initial pool.
C10_CountsStayPositive ==
  /\ pc # "find_anagrams" => WithinPool(letters_count)
  /\ \A n \in DOMAIN stack : WithinPool(stack[n].remaining)

\* C10 witness: an exclusion word that used up a letter, then a subtraction
\* inside the full-match search
C10_Witness ==
  /\ pc = "search"
  /\ Len(stack) >= 2
  /\ ex_i > 1
  /\ \E c \in FoldedChars : PoolCount(c) > 0 /\ c \notin DOMAIN letters_count

====
